---- MODULE Spec2Model ----
(***************************************************************************)
(* Model of the kopia backup core: the incremental uploader (package dir), *)
(* the vault (package vault), the ignore engine (package ignorefs) and the *)
(* object verify command (package cli).                                    *)
(*                                                                         *)
(* Object identifiers are modelled as the serialized bytes of the object   *)
(* they name (an ideal, collision-free content hash), so two objects have  *)
(* the same identifier exactly when they have the same bytes.              *)
(***************************************************************************)
EXTENDS Integers, Sequences, FiniteSets, TLC

(***************************************************************************)
(* Bounds of the model.                                                    *)
(***************************************************************************)
\* number of UploadDir runs started on one uploader
MaxRuns == 2
\* number of vault Create calls on one store
MaxCreates == 2
\* number of vault Put calls
MaxPuts == 2

(***************************************************************************)
(* Uploader: data model.                                                   *)
(***************************************************************************)
\* content.NullObjectID, the empty string
NullObjectID == <<>>

\* block name prefixes given to the CAS writer, as character codes
BlockPrefixF == 70
BlockPrefixD == 68

EntryTypeFile == "File"
EntryTypeDirectory == "Directory"

ErrNone == "nil"
ErrUploadCancelled == "upload cancelled"
ErrHashFile == "unable to hash file"
ErrList == "unable to list directory"

\* an identifier that names no object of the CAS
GarbageObjectID == <<88>>

\* the values a file's byte and a file's modification time take
FileBytes == {0, 1}
ModTimes == {0, 1}

\* a regular file of the source tree: present or not, its mtime and its byte
FileStates ==
  {[present |-> FALSE, mtime |-> 0, data |-> 0]} \cup
  [present : {TRUE}, mtime : ModTimes, data : FileBytes]

\* the source tree: the root holds file "f" and directory "d", "d" holds file "f"
NoFile == [present |-> FALSE, mtime |-> 0, data |-> 0]
DirStates == {[present |-> FALSE, f |-> NoFile]} \cup [present : {TRUE}, f : FileStates]
Trees == [f : FileStates, d : DirStates]

RootPath == <<>>
SubdirPath == <<"d">>

NameCode(n) == IF n = "f" THEN 102 ELSE 100
TypeCode(t) == IF t = EntryTypeFile THEN 1 ELSE 2

Entry(name, type, mtime, oid) ==
  [Name |-> name, Type |-> type, Size |-> IF type = EntryTypeFile THEN 1 ELSE 0,
   Mode |-> 0, ModTime |-> mtime, Owner |-> 0, ObjectID |-> oid]

FileEntries(fs) ==
  IF fs.present THEN <<Entry("f", EntryTypeFile, fs.mtime, NullObjectID)>> ELSE <<>>

\* Lister.List: the listing of a directory of the tree, in the adapter's order
List(t, path) ==
  IF path = RootPath
  THEN FileEntries(t.f) \o
       (IF t.d.present THEN <<Entry("d", EntryTypeDirectory, 0, NullObjectID)>> ELSE <<>>)
  ELSE FileEntries(t.d.f)

\* the byte of the file at fullPath
FileData(t, fullPath) == IF Len(fullPath) = 1 THEN t.f.data ELSE t.d.f.data

\* the object written by UploadFile: block prefix F, then the file's bytes
FileObject(data) == <<BlockPrefixF, data>>

SerializeEntry(e) ==
  <<NameCode(e.Name), TypeCode(e.Type), e.Size, e.Mode, e.ModTime, e.Owner, Len(e.ObjectID)>>
    \o e.ObjectID

RECURSIVE SerializeEntries(_)
SerializeEntries(es) ==
  IF es = <<>> THEN <<>> ELSE SerializeEntry(Head(es)) \o SerializeEntries(Tail(es))

\* WriteDir: the directory object, block prefix D then every entry in listing order
WriteDir(entries) == <<BlockPrefixD>> \o SerializeEntries(entries)

EntryHeaderLen == Len(SerializeEntry(Entry("f", EntryTypeFile, 0, NullObjectID)))

RECURSIVE ParseEntries(_)
ParseEntries(bs) ==
  IF bs = <<>> THEN [ok |-> TRUE, Entries |-> <<>>]
  ELSE IF Len(bs) < EntryHeaderLen \/ Len(bs) < EntryHeaderLen + bs[EntryHeaderLen]
            \/ bs[1] \notin {102, 100} \/ bs[2] \notin {1, 2}
       THEN [ok |-> FALSE, Entries |-> <<>>]
       ELSE LET n == EntryHeaderLen + bs[EntryHeaderLen]
                e == [Name |-> IF bs[1] = 102 THEN "f" ELSE "d",
                      Type |-> IF bs[2] = 1 THEN EntryTypeFile ELSE EntryTypeDirectory,
                      Size |-> bs[3], Mode |-> bs[4], ModTime |-> bs[5], Owner |-> bs[6],
                      ObjectID |-> SubSeq(bs, EntryHeaderLen + 1, n)]
                rest == ParseEntries(SubSeq(bs, n + 1, Len(bs)))
            IN IF rest.ok THEN [ok |-> TRUE, Entries |-> <<e>> \o rest.Entries]
               ELSE [ok |-> FALSE, Entries |-> <<>>]

\* ReadDir: parses a directory object; anything else is a parse error
ReadDir(obj) ==
  IF obj # <<>> /\ obj[1] = BlockPrefixD
  THEN ParseEntries(Tail(obj))
  ELSE [ok |-> FALSE, Entries |-> <<>>]

\* Listing.FindEntryName: position of the first entry of that name, 0 for nil
FindEntryName(entries, name) ==
  IF \E i \in 1..Len(entries) : entries[i].Name = name
  THEN CHOOSE i \in 1..Len(entries) :
         entries[i].Name = name /\ \A j \in 1..(i - 1) : entries[j].Name # name
  ELSE 0

\* Entry.metadataEquals: the other entry exists and agrees on every metadata field
metadataEquals(e, entries, ci) ==
  /\ ci # 0
  /\ e.Type = entries[ci].Type
  /\ e.Size = entries[ci].Size
  /\ e.Mode = entries[ci].Mode
  /\ e.ModTime = entries[ci].ModTime
  /\ e.Owner = entries[ci].Owner

(***************************************************************************)
(* State.                                                                  *)
(***************************************************************************)
VARIABLES
  tree,        \* the source tree on disk
  objects,     \* identifiers of the objects held by the CAS
  cancelled,   \* uploader.cancelled
  stack,       \* the activation records of UploadDir, innermost last
  result,      \* what the top-level UploadDir call returned
  runPrev,     \* the previous identifier given to the top-level call
  runs,        \* number of top-level calls started
  dirWrites,   \* paths for which a DIR: writer was opened in this run
  fileOpens,   \* paths on which UploadFile was invoked in this run
  vaultFormat, \* the Format clients pass to Create
  blocks,      \* the vault's block store: block id -> bytes
  v,           \* the Vault most recently returned by Create or Open
  created,     \* the Vault returned by the last Create, and how it was called
  vres,        \* the last vault call and what it returned
  open,        \* the Open call in progress: reads issued, blocks collected
  creates,     \* number of Create calls
  puts,        \* number of Put calls
  latest,      \* per item id, the payload of the last Put not followed by a Remove
  codec,       \* one block on its way through the block codec
  ign,         \* the ignore engine: policies, wrapped directories, listings, callbacks
  ver,         \* the verify command: flags, walk, visited set, errors
  cancelAt     \* what the run had done when Cancel was first called

vaultVars == <<vaultFormat, blocks, v, created, vres, open, creates, puts, latest>>

\* the state of the components modelled apart from uploader and vault
auxVars == <<codec, ign, ver, cancelAt>>

uploaderVars ==
  <<tree, objects, cancelled, stack, result, runPrev, runs, dirWrites, fileOpens>>

vars == <<uploaderVars, vaultVars, auxVars>>


NoResult == [done |-> FALSE, id |-> NullObjectID, err |-> ErrNone]

UploaderInit ==
  /\ tree \in Trees
  /\ objects = {}
  /\ cancelled = FALSE
  /\ stack = <<>>
  /\ result = NoResult
  /\ runPrev = NullObjectID
  /\ runs = 0
  /\ dirWrites = {}
  /\ fileOpens = {}

Idle == stack = <<>>
Top == stack[Len(stack)]

\* a flag that only the top-level call would see
isCancelledAtTop == cancelled /\ Len(stack) = 1

\* uploader.isCancelled
isCancelled == cancelled

\* the listing obtained from the previous identifier (lines 68-77): empty when
\* previous is null, cannot be opened, or cannot be parsed
CachedListing(previous) ==
  IF previous # NullObjectID /\ previous \in objects /\ ReadDir(previous).ok
  THEN ReadDir(previous).Entries
  ELSE <<>>

\* identifier given to the recursive call for a subdirectory (lines 93-96)
PreviousSubdirObjectID(cached, ci) ==
  IF ci # 0 THEN cached[ci].ObjectID ELSE NullObjectID

\* what UploadDir returns when the cancel flag is seen (lines 59-61)
CancelledReturn(previous) == [id |-> previous, err |-> ErrUploadCancelled]

\* what UploadDir returns when the recursive call fails (lines 99-101)
SubdirErrorReturn(previous, err) == [id |-> NullObjectID, err |-> err]

ReturnsPreviousWhenNull(matches, previous) == matches /\ previous = NullObjectID

\* the test of line 117
ReturnsPrevious(matches, previous) == matches /\ previous # NullObjectID

ReusesCachedNever(cachedMetadataMatches) == FALSE

\* whether a non-directory entry reuses the cached identifier (line 106)
ReusesCached(cachedMetadataMatches) == cachedMetadataMatches

AfterSubdirKeepsMatch(p, id) ==
  [p EXCEPT !.listing[p.i].ObjectID = id, !.i = p.i + 1, !.pc = "loop"]

\* the caller's handling of a finished recursive call (lines 98-105)
AfterSubdir(p, id) ==
  LET e == p.listing[p.i]
      ci == FindEntryName(p.cached, e.Name)
  IN [p EXCEPT !.listing[p.i].ObjectID = id,
               !.matches = p.matches /\ ~(ci # 0 /\ id # p.cached[ci].ObjectID),
               !.i = p.i + 1,
               !.pc = "loop"]

\* a return of the innermost call with (id, err): into the caller's frame, or,
\* on error, out of every enclosing call
RECURSIVE Unwind(_, _, _)
Unwind(st, id, err) ==
  LET rest == SubSeq(st, 1, Len(st) - 1)
  IN IF rest = <<>>
     THEN [stack |-> <<>>, result |-> [done |-> TRUE, id |-> id, err |-> err]]
     ELSE IF err # ErrNone
          THEN LET r == SubdirErrorReturn(rest[Len(rest)].previous, err)
               IN Unwind(rest, r.id, r.err)
          ELSE [stack |-> [rest EXCEPT ![Len(rest)] = AfterSubdir(rest[Len(rest)], id)],
                result |-> NoResult]

Return(id, err) ==
  LET u == Unwind(stack, id, err)
  IN /\ stack' = u.stack
     /\ result' = u.result

Frame(path, previous) ==
  [path |-> path, previous |-> previous, listing |-> <<>>, cached |-> <<>>,
   i |-> 1, matches |-> FALSE, pc |-> "start"]

(***************************************************************************)
(* Uploader: actions.                                                      *)
(***************************************************************************)
\* the source tree changes between two runs (the record of the last run is dropped)
ModifyTree ==
  /\ Idle
  /\ runs < MaxRuns
  /\ \E t \in Trees : t # tree /\ tree' = t
  /\ result' = NoResult
  /\ runPrev' = NullObjectID
  /\ dirWrites' = {}
  /\ fileOpens' = {}
  /\ UNCHANGED <<objects, cancelled, stack, runs>>
  /\ UNCHANGED vaultVars
  /\ UNCHANGED auxVars

\* a client calls UploadDir on the root with some previous identifier
StartUploadDir ==
  /\ Idle
  /\ runs < MaxRuns
  /\ \E previous \in {NullObjectID, GarbageObjectID} \cup objects :
       /\ stack' = <<Frame(RootPath, previous)>>
       /\ runPrev' = previous
  /\ runs' = runs + 1
  /\ result' = NoResult
  /\ dirWrites' = {}
  /\ fileOpens' = {}
  /\ UNCHANGED <<tree, objects, cancelled>>
  /\ UNCHANGED vaultVars
  /\ UNCHANGED auxVars

\* lines 59-79: cancellation check, listing, reading of the previous object
UploadDirEnter ==
  /\ ~Idle
  /\ Top.pc = "start"
  /\ IF isCancelled
     THEN LET r == CancelledReturn(Top.previous) IN Return(r.id, r.err)
     ELSE \E listOk \in BOOLEAN :
            IF ~listOk
            THEN Return(NullObjectID, ErrList)
            ELSE LET listing == List(tree, Top.path)
                     cached == CachedListing(Top.previous)
                 IN /\ stack' = [stack EXCEPT ![Len(stack)] =
                          [Top EXCEPT !.listing = listing, !.cached = cached,
                                      !.matches = (Len(cached) = Len(listing)),
                                      !.pc = "loop"]]
                    /\ result' = result
  /\ UNCHANGED <<tree, objects, cancelled, runPrev, runs, dirWrites, fileOpens>>
  /\ UNCHANGED vaultVars
  /\ UNCHANGED auxVars

\* lines 80-115, one entry: recursion for a directory, reuse or UploadFile otherwise
UploadDirEntry ==
  /\ ~Idle
  /\ Top.pc = "loop"
  /\ Top.i <= Len(Top.listing)
  /\ LET e == Top.listing[Top.i]
         fullPath == Top.path \o <<e.Name>>
         ci == FindEntryName(Top.cached, e.Name)
         cachedMetadataMatches == metadataEquals(e, Top.cached, ci)
         matches == Top.matches /\ cachedMetadataMatches
     IN IF e.Type = EntryTypeDirectory
        THEN /\ stack' = [stack EXCEPT ![Len(stack)] =
                            [Top EXCEPT !.matches = matches, !.pc = "wait"]]
                          \o <<Frame(fullPath, PreviousSubdirObjectID(Top.cached, ci))>>
             /\ UNCHANGED <<objects, result, fileOpens>>
        ELSE IF ReusesCached(cachedMetadataMatches)
             THEN /\ stack' = [stack EXCEPT ![Len(stack)] =
                                 [Top EXCEPT !.matches = matches,
                                             !.listing[Top.i].ObjectID = Top.cached[ci].ObjectID,
                                             !.i = Top.i + 1]]
                  /\ UNCHANGED <<objects, result, fileOpens>>
             ELSE /\ fileOpens' = fileOpens \cup {fullPath}
                  /\ \E openOk \in BOOLEAN :
                       IF openOk
                       THEN LET oid == FileObject(FileData(tree, fullPath))
                            IN /\ objects' = objects \cup {oid}
                               /\ stack' = [stack EXCEPT ![Len(stack)] =
                                              [Top EXCEPT !.matches = matches,
                                                          !.listing[Top.i].ObjectID = oid,
                                                          !.i = Top.i + 1]]
                               /\ result' = result
                       ELSE /\ objects' = objects
                            /\ Return(NullObjectID, ErrHashFile)
  /\ UNCHANGED <<tree, cancelled, runPrev, runs, dirWrites>>
  /\ UNCHANGED vaultVars
  /\ UNCHANGED auxVars

\* lines 117-129: return previous unchanged, or write the directory object
UploadDirFinish ==
  /\ ~Idle
  /\ Top.pc = "loop"
  /\ Top.i > Len(Top.listing)
  /\ IF ReturnsPrevious(Top.matches, Top.previous)
     THEN /\ Return(Top.previous, ErrNone)
          /\ UNCHANGED <<objects, dirWrites>>
     ELSE LET oid == WriteDir(Top.listing)
          IN /\ objects' = objects \cup {oid}
             /\ dirWrites' = dirWrites \cup {Top.path}
             /\ Return(oid, ErrNone)
  /\ UNCHANGED <<tree, cancelled, runPrev, runs, fileOpens>>
  /\ UNCHANGED vaultVars
  /\ UNCHANGED auxVars

\* uploader.Cancel, from any thread at any time
Cancel ==
  /\ cancelled' = TRUE
  /\ UNCHANGED <<tree, objects, stack, result, runPrev, runs, dirWrites, fileOpens>>
  /\ UNCHANGED vaultVars
  /\ UNCHANGED auxVars

UploaderNext ==
  \/ ModifyTree
  \/ StartUploadDir
  \/ UploadDirEnter
  \/ UploadDirEntry
  \/ UploadDirFinish
  \/ Cancel

(***************************************************************************)
(* Vault: data model.  Block and item names are sequences of characters,   *)
(* block contents are sequences of bytes.                                  *)
(***************************************************************************)
formatBlockID == <<"f", "o", "r", "m", "a", "t">>
repositoryConfigBlockID == <<"r", "e", "p", "o">>
colocatedVaultItemPrefix == <<"V", "L", "T">>
NoPrefix == <<>>

\* item names clients pass to Put, Get and Remove
ItemIDs ==
  {formatBlockID, repositoryConfigBlockID,
   colocatedVaultItemPrefix \o formatBlockID,
   <<"a">>}

\* payloads clients pass to Put
Payloads == {<<1>>, <<2>>}

\* credentials (passwords) offered by clients, and outcomes of the random source
Creds == {1, 2}
UniqueIDs == {1, 2}
RandBytes == {0, 1}

\* Format.Encryption values clients configure; the last one is not supported
Encryptions == {"none", "aes-128", "aes-192", "aes-256", "des"}

\* cipher block length (the IV length) and HMAC-SHA-256 length, in bytes
BlockSize == 16
HashSize == 32

ErrReservedName == "invalid vault item name"
ErrItemNotFound == "item not found"
ErrStorage == "storage error"
ErrNoConnectionInfo == "repository does not support persisting configuration"
ErrFormatNotFound == "vault format block not found"
ErrUnsupportedEncryption == "unsupported encryption format"
ErrUnsupportedChecksum == "unsupported checksum format"
ErrChecksum == "cannot read encrypted block: incorrect checksum"
ErrJSON == "json: cannot unmarshal"
Panic == "panic: slice bounds out of range"

\* a byte slice or nil
NilBlock == [nil |-> TRUE, bytes |-> <<>>]
Bytes(bs) == [nil |-> FALSE, bytes |-> bs]

\* connection info advertised by a separate repository store; 0 is the nil pointer
RepoConnectionInfo == 7
NoConnection == 0
\* the repository format descriptor clients pass to Create
RepoFormat == 3

ZeroFormat == [Version |-> "", UniqueID |-> 0, Encryption |-> "", Checksum |-> ""]
ZeroRepoConfig == [Connection |-> NoConnection, Format |-> 0]
NoVault ==
  [valid |-> FALSE, Format |-> ZeroFormat, RepoConfig |-> ZeroRepoConfig,
   masterKey |-> 0, itemPrefix |-> NoPrefix]

(***************************************************************************)
(* JSON of the two persisted records: an object of the record's members.   *)
(***************************************************************************)
EncryptionCode(e) ==
  CASE e = "none" -> 1 [] e = "aes-128" -> 2 [] e = "aes-192" -> 3
    [] e = "aes-256" -> 4 [] e = "des" -> 5 [] OTHER -> 0
EncryptionOf(c) ==
  CASE c = 1 -> "none" [] c = 2 -> "aes-128" [] c = 3 -> "aes-192"
    [] c = 4 -> "aes-256" [] c = 5 -> "des" [] OTHER -> ""
ChecksumCode(c) == IF c = "hmac-sha-256" THEN 1 ELSE 0
ChecksumOf(c) == IF c = 1 THEN "hmac-sha-256" ELSE ""
VersionCode(x) == IF x = "1" THEN 1 ELSE 0
VersionOf(c) == IF c = 1 THEN "1" ELSE ""

MarshalFormat(f) ==
  <<123, VersionCode(f.Version), f.UniqueID, EncryptionCode(f.Encryption),
    ChecksumCode(f.Checksum), 125>>
MarshalRepoConfig(rc) == <<123, rc.Connection, rc.Format, 125>>

IsJSONObject(bs, n) == Len(bs) = n /\ bs[1] = 123 /\ bs[n] = 125

\* json.Unmarshal into a Format: an object with other members leaves it zero
UnmarshalFormat(b) ==
  IF ~b.nil /\ IsJSONObject(b.bytes, 6)
  THEN [err |-> ErrNone,
        val |-> [Version |-> VersionOf(b.bytes[2]), UniqueID |-> b.bytes[3],
                 Encryption |-> EncryptionOf(b.bytes[4]), Checksum |-> ChecksumOf(b.bytes[5])]]
  ELSE IF ~b.nil /\ IsJSONObject(b.bytes, 4)
       THEN [err |-> ErrNone, val |-> ZeroFormat]
       ELSE [err |-> ErrJSON, val |-> ZeroFormat]

\* json.Unmarshal into a RepositoryConfig
UnmarshalRepoConfig(b) ==
  IF ~b.nil /\ IsJSONObject(b.bytes, 4)
  THEN [err |-> ErrNone, val |-> [Connection |-> b.bytes[2], Format |-> b.bytes[3]]]
  ELSE IF ~b.nil /\ IsJSONObject(b.bytes, 6)
       THEN [err |-> ErrNone, val |-> ZeroRepoConfig]
       ELSE [err |-> ErrJSON, val |-> ZeroRepoConfig]

(***************************************************************************)
(* Keys, cipher and checksum.                                              *)
(***************************************************************************)
purposeAESKey == 1
purposeChecksumSecret == 2

\* Credentials.getMasterKey
getMasterKey(creds, uniqueID) == creds * 16 + uniqueID

\* Vault.deriveKey: HKDF of master key, unique id (salt) and purpose, n bytes
deriveKey(vault, purpose, n) ==
  (vault.masterKey * 8 + vault.Format.UniqueID * 4 + purpose * 64 + n) % 251

\* Vault.newCipher: nil for "none", an AES block cipher of the derived key
newCipher(vault) ==
  CASE vault.Format.Encryption = "none" -> [err |-> ErrNone, nil |-> TRUE, key |-> 0]
    [] vault.Format.Encryption = "aes-128" ->
         [err |-> ErrNone, nil |-> FALSE, key |-> deriveKey(vault, purposeAESKey, 16)]
    [] vault.Format.Encryption = "aes-192" ->
         [err |-> ErrNone, nil |-> FALSE, key |-> deriveKey(vault, purposeAESKey, 24)]
    [] vault.Format.Encryption = "aes-256" ->
         [err |-> ErrNone, nil |-> FALSE, key |-> deriveKey(vault, purposeAESKey, 32)]
    [] OTHER -> [err |-> ErrUnsupportedEncryption, nil |-> TRUE, key |-> 0]

\* Vault.newChecksum: HMAC-SHA-256 keyed with the derived checksum secret
newChecksum(vault) ==
  IF vault.Format.Checksum = "hmac-sha-256"
  THEN [err |-> ErrNone, key |-> deriveKey(vault, purposeChecksumSecret, 32)]
  ELSE [err |-> ErrUnsupportedChecksum, key |-> 0]

RECURSIVE Xor(_, _)
Xor(a, b) ==
  IF a = 0 THEN b
  ELSE IF b = 0 THEN a
       ELSE (((a % 2) + (b % 2)) % 2) + 2 * Xor(a \div 2, b \div 2)

\* cipher.NewCTR(blk, iv).XORKeyStream: the data XORed with the key stream
XORKeyStream(key, iv, data) ==
  [i \in 1..Len(data) |-> Xor(data[i], (key + 7 * iv[1] + i) % 256)]

RECURSIVE WeightedSum(_, _)
WeightedSum(data, i) ==
  IF i > Len(data) THEN 0 ELSE i * data[i] + WeightedSum(data, i + 1)

\* hash.Write(data); hash.Sum(nil): the HashSize bytes of the keyed checksum
HmacSum(key, data) ==
  LET sum == WeightedSum(data, 1)
  IN [j \in 1..HashSize |-> (key + j + sum) % 251]

\* the block built by writeEncryptedBlock (lines 58-85): IV, ciphertext, checksum
EncryptBlock(vault, content, iv) ==
  LET blk == newCipher(vault)
      hash == newChecksum(vault)
  IN IF blk.err # ErrNone THEN [err |-> blk.err, bytes |-> <<>>]
     ELSE IF blk.nil THEN [err |-> ErrNone, bytes |-> content]
     ELSE IF hash.err # ErrNone THEN [err |-> hash.err, bytes |-> <<>>]
     ELSE LET ivPlusContent == iv \o XORKeyStream(blk.key, iv, content)
          IN [err |-> ErrNone, bytes |-> ivPlusContent \o HmacSum(hash.key, ivPlusContent)]

decryptBlockUnchecked(vault, content) ==
  LET blk == newCipher(vault)
      n == Len(content.bytes)
  IN IF blk.err # ErrNone THEN [err |-> blk.err, block |-> NilBlock]
     ELSE IF blk.nil THEN [err |-> ErrNone, block |-> content]
     ELSE IF n - BlockSize - HashSize < 0 THEN [err |-> Panic, block |-> NilBlock]
     ELSE [err |-> ErrNone,
           block |-> Bytes(XORKeyStream(blk.key, SubSeq(content.bytes, 1, BlockSize),
                                        SubSeq(content.bytes, BlockSize + 1, n - HashSize)))]

\* Vault.decryptBlock (lines 102-135); content is a byte slice or nil
decryptBlock(vault, content) ==
  LET blk == newCipher(vault)
      hash == newChecksum(vault)
      n == Len(content.bytes)
      p == n - HashSize
  IN IF blk.err # ErrNone THEN [err |-> blk.err, block |-> NilBlock]
     ELSE IF blk.nil THEN [err |-> ErrNone, block |-> content]
     ELSE IF hash.err # ErrNone THEN [err |-> hash.err, block |-> NilBlock]
     ELSE IF p < 0 THEN [err |-> Panic, block |-> NilBlock]
     ELSE IF HmacSum(hash.key, SubSeq(content.bytes, 1, p)) # SubSeq(content.bytes, p + 1, n)
          THEN [err |-> ErrChecksum, block |-> NilBlock]
     ELSE IF n - BlockSize - HashSize < 0 THEN [err |-> Panic, block |-> NilBlock]
     ELSE [err |-> ErrNone,
           block |-> Bytes(XORKeyStream(blk.key, SubSeq(content.bytes, 1, BlockSize),
                                        SubSeq(content.bytes, BlockSize + 1, n - HashSize)))]

(***************************************************************************)
(* Vault: block store and item operations.                                 *)
(***************************************************************************)
\* Storage.GetBlock without storage errors: the bytes, or nil when not found
GetBlock(store, id) == IF id \in DOMAIN store THEN Bytes(store[id]) ELSE NilBlock

\* Storage.PutBlock with PutOptionsOverwrite
PutBlock(store, id, bs) ==
  [k \in DOMAIN store \cup {id} |-> IF k = id THEN bs ELSE store[k]]

\* Storage.DeleteBlock
DeleteBlock(store, id) == [k \in DOMAIN store \ {id} |-> store[k]]

HasPrefix(str, prefix) ==
  Len(str) >= Len(prefix) /\ SubSeq(str, 1, Len(prefix)) = prefix
TrimPrefix(str, prefix) ==
  IF HasPrefix(str, prefix) THEN SubSeq(str, Len(prefix) + 1, Len(str)) ELSE str

isReservedNameFormatOnly(itemID) == itemID = formatBlockID

\* isReservedName (lines 389-397)
isReservedName(itemID) == itemID \in {formatBlockID, repositoryConfigBlockID}

\* checkReservedName (lines 399-405)
checkReservedName(itemID) == IF isReservedName(itemID) THEN ErrReservedName ELSE ErrNone

VaultResult(op, id, err, data) ==
  [op |-> op, id |-> id, err |-> err, data |-> data, items |-> {}]

OpenIdle ==
  [pc |-> "idle", creds |-> 0, pending |-> {}, blocks |-> [i \in 0..3 |-> NilBlock],
   ioErrors |-> {}, err |-> ErrNone, vault |-> NoVault]

NeverCreated == [vault |-> NoVault, creds |-> 0, repo |-> "nil"]

\* no item was put
NoItems == [id \in ItemIDs |-> NilBlock]

\* Cancel was not called during a run
NoCancel == [set |-> FALSE]

\* no directory is wrapped by the ignore engine
IgnIdle == [pc |-> "idle"]

\* no verify command runs
VerIdle == [pc |-> "idle"]

\* no block is in the codec
CodecIdle ==
  [pc |-> "idle", vault |-> NoVault, content |-> <<>>, block |-> <<>>, pos |-> 0,
   err |-> ErrNone, out |-> NilBlock]

\* the components modelled apart from uploader and vault, at rest
AuxIdle ==
  /\ codec = CodecIdle
  /\ ign = IgnIdle
  /\ ver = VerIdle
  /\ cancelAt = NoCancel

ClientFormat(encryption) ==
  [Version |-> "", UniqueID |-> 0, Encryption |-> encryption, Checksum |-> "hmac-sha-256"]

VaultIdle ==
  /\ vaultFormat = ClientFormat("none")
  /\ blocks = <<>>
  /\ v = NoVault
  /\ created = NeverCreated
  /\ vres = VaultResult("none", <<>>, ErrNone, NilBlock)
  /\ open = OpenIdle
  /\ creates = 0
  /\ puts = 0
  /\ latest = NoItems

NotOpening == open.pc # "reading"

\* Vault.Put (lines 49-55) with writeEncryptedBlock (lines 57-88)
Put ==
  /\ v.valid
  /\ NotOpening
  /\ puts < MaxPuts
  /\ puts' = puts + 1
  /\ \E itemID \in ItemIDs, content \in Payloads, r \in RandBytes, storageOk \in BOOLEAN :
       LET enc == EncryptBlock(v, content, [i \in 1..BlockSize |-> r])
           err == IF checkReservedName(itemID) # ErrNone THEN checkReservedName(itemID)
                  ELSE IF enc.err # ErrNone THEN enc.err
                  ELSE IF ~storageOk THEN ErrStorage ELSE ErrNone
       IN /\ vres' = VaultResult("Put", itemID, err, NilBlock)
          /\ blocks' = IF err = ErrNone
                       THEN PutBlock(blocks, v.itemPrefix \o itemID, enc.bytes)
                       ELSE blocks
          /\ latest' = IF err = ErrNone THEN [latest EXCEPT ![itemID] = Bytes(content)]
                       ELSE latest
  /\ UNCHANGED <<vaultFormat, v, created, open, creates>>
  /\ UNCHANGED uploaderVars
  /\ UNCHANGED auxVars

readEncryptedBlockUnprefixed(vault, itemID, storageOk) ==
  IF ~storageOk THEN [err |-> ErrStorage, block |-> NilBlock]
  ELSE IF itemID \notin DOMAIN blocks
       THEN [err |-> ErrItemNotFound, block |-> NilBlock]
       ELSE decryptBlock(vault, GetBlock(blocks, itemID))

\* Vault.readEncryptedBlock (lines 90-100)
readEncryptedBlock(vault, itemID, storageOk) ==
  IF ~storageOk THEN [err |-> ErrStorage, block |-> NilBlock]
  ELSE IF (vault.itemPrefix \o itemID) \notin DOMAIN blocks
       THEN [err |-> ErrItemNotFound, block |-> NilBlock]
       ELSE decryptBlock(vault, GetBlock(blocks, vault.itemPrefix \o itemID))

\* Vault.Get (lines 179-185)
Get ==
  /\ v.valid
  /\ NotOpening
  /\ \E itemID \in ItemIDs, storageOk \in BOOLEAN :
       LET r == readEncryptedBlock(v, itemID, storageOk)
       IN vres' = IF checkReservedName(itemID) # ErrNone
                  THEN VaultResult("Get", itemID, checkReservedName(itemID), NilBlock)
                  ELSE VaultResult("Get", itemID, r.err, r.block)
  /\ UNCHANGED <<vaultFormat, blocks, v, created, open, creates, puts, latest>>
  /\ UNCHANGED uploaderVars
  /\ UNCHANGED auxVars

\* Vault.List (lines 207-221), for the empty prefix and for prefix "a"
ListItems ==
  /\ v.valid
  /\ NotOpening
  /\ \E prefix \in {<<>>, <<"a">>} :
       vres' = [VaultResult("List", prefix, ErrNone, NilBlock) EXCEPT !.items =
                 {itemID \in {TrimPrefix(b, v.itemPrefix) :
                                b \in {k \in DOMAIN blocks : HasPrefix(k, v.itemPrefix \o prefix)}} :
                    ~isReservedName(itemID)}]
  /\ UNCHANGED <<vaultFormat, blocks, v, created, open, creates, puts, latest>>
  /\ UNCHANGED uploaderVars
  /\ UNCHANGED auxVars

\* Vault.Remove (lines 251-257)
Remove ==
  /\ v.valid
  /\ NotOpening
  /\ \E itemID \in ItemIDs, storageOk \in BOOLEAN :
       LET err == IF checkReservedName(itemID) # ErrNone THEN checkReservedName(itemID)
                  ELSE IF ~storageOk THEN ErrStorage ELSE ErrNone
       IN /\ vres' = VaultResult("Remove", itemID, err, NilBlock)
          /\ blocks' = IF err = ErrNone THEN DeleteBlock(blocks, v.itemPrefix \o itemID)
                       ELSE blocks
          /\ latest' = IF err = ErrNone THEN [latest EXCEPT ![itemID] = NilBlock]
                       ELSE latest
  /\ UNCHANGED <<vaultFormat, v, created, open, creates, puts>>
  /\ UNCHANGED uploaderVars
  /\ UNCHANGED auxVars

(***************************************************************************)
(* Vault: Create and Open.                                                 *)
(***************************************************************************)
\* the repoStorage argument of Create: nil, the vault store itself, another
\* store, or another store that is no ConnectionInfoProvider
RepoStorages == {"nil", "same", "other", "other-noinfo"}

\* the item prefix Create chooses (lines 272-275)
CreateItemPrefix(repo) == IF repo = "nil" THEN colocatedVaultItemPrefix ELSE NoPrefix

\* the connection info Create embeds (lines 303-306)
CreateConnection(repo) == IF repo = "other" THEN RepoConnectionInfo ELSE NoConnection

\* Create (lines 260-314) on store: the error, the store and the Vault it leaves
CreateOutcome(store, format, creds, repo, uniqueID, iv) ==
  LET f == [format EXCEPT !.Version = "1", !.UniqueID = uniqueID]
      rc == [Connection |-> CreateConnection(repo), Format |-> RepoFormat]
      vault == [valid |-> TRUE, Format |-> f, RepoConfig |-> rc,
                masterKey |-> getMasterKey(creds, uniqueID),
                itemPrefix |-> CreateItemPrefix(repo)]
      withFormat == PutBlock(store, vault.itemPrefix \o formatBlockID, MarshalFormat(f))
      enc == EncryptBlock(vault, MarshalRepoConfig(rc), iv)
  IN IF repo = "other-noinfo"
     THEN [err |-> ErrNoConnectionInfo, blocks |-> store, vault |-> NoVault]
     ELSE IF enc.err # ErrNone
          THEN [err |-> enc.err, blocks |-> withFormat, vault |-> NoVault]
          ELSE [err |-> ErrNone,
                blocks |-> PutBlock(withFormat, vault.itemPrefix \o repositoryConfigBlockID,
                                    enc.bytes),
                vault |-> vault]

\* the owner's credentials are 1; Open is tried with any credentials.  The
\* record of an earlier Open is dropped.
Create ==
  /\ NotOpening
  /\ creates < MaxCreates
  /\ creates' = creates + 1
  /\ \E repo \in RepoStorages, uniqueID \in UniqueIDs, r \in RandBytes :
       LET out == CreateOutcome(blocks, vaultFormat, 1, repo, uniqueID,
                                [i \in 1..BlockSize |-> r])
       IN /\ vres' = VaultResult("Create", <<>>, out.err, NilBlock)
          /\ blocks' = out.blocks
          /\ v' = IF out.err = ErrNone THEN out.vault ELSE v
          /\ created' = IF out.err = ErrNone
                        THEN [vault |-> out.vault, creds |-> 1, repo |-> repo]
                        ELSE IF out.blocks = blocks THEN created ELSE NeverCreated
          /\ latest' = IF out.err = ErrNone THEN NoItems ELSE latest
  /\ open' = OpenIdle
  /\ UNCHANGED <<vaultFormat, puts>>
  /\ UNCHANGED uploaderVars
  /\ UNCHANGED auxVars

\* the block names Open reads, by index (lines 349-352)
OpenBlockName(index) ==
  CASE index = 0 -> formatBlockID
    [] index = 1 -> repositoryConfigBlockID
    [] index = 2 -> colocatedVaultItemPrefix \o formatBlockID
    [] OTHER -> colocatedVaultItemPrefix \o repositoryConfigBlockID

\* Open (lines 333-353): the call starts its four reads
OpenStart ==
  /\ open.pc # "reading"
  /\ \E creds \in Creds :
       open' = [OpenIdle EXCEPT !.pc = "reading", !.creds = creds, !.pending = 0..3]
  /\ vres' = VaultResult("Open", <<>>, ErrNone, NilBlock)
  /\ UNCHANGED <<vaultFormat, blocks, v, created, creates, puts, latest>>
  /\ UNCHANGED uploaderVars
  /\ UNCHANGED auxVars

\* what the goroutine f keeps of a GetBlock result (line 344)
OpenReadResult(id, storageOk) == IF storageOk THEN GetBlock(blocks, id) ELSE NilBlock

\* one of the four goroutines f(index, name) completes (lines 343-346)
OpenRead ==
  /\ open.pc = "reading"
  /\ \E index \in open.pending, storageOk \in BOOLEAN :
       open' = [open EXCEPT !.pending = open.pending \ {index},
                            !.blocks[index] = OpenReadResult(OpenBlockName(index), storageOk),
                            !.ioErrors = IF storageOk THEN open.ioErrors
                                         ELSE open.ioErrors \cup {index}]
  /\ UNCHANGED <<vaultFormat, blocks, v, created, vres, creates, puts, latest>>
  /\ UNCHANGED uploaderVars
  /\ UNCHANGED auxVars

OpenOffsetPrefersColocated(bs) == IF bs[2].nil THEN 0 ELSE 2

\* the variant Open selects (lines 359-363): 0 for the unprefixed blocks, 2 for VLT
OpenOffset(bs) == IF bs[0].nil THEN 2 ELSE 0

\* Open after wg.Wait (lines 355-386): the vault and the error it returns
OpenOutcome(bs, creds) ==
  LET offset == OpenOffset(bs)
      f == UnmarshalFormat(bs[offset])
      vault == [valid |-> TRUE, Format |-> f.val, RepoConfig |-> ZeroRepoConfig,
                masterKey |-> getMasterKey(creds, f.val.UniqueID),
                itemPrefix |-> IF offset = 2 THEN colocatedVaultItemPrefix ELSE NoPrefix]
      cfgData == decryptBlock(vault, bs[offset + 1])
      rc == UnmarshalRepoConfig(cfgData.block)
  IN IF bs[0].nil /\ bs[2].nil THEN [err |-> ErrFormatNotFound, vault |-> NoVault]
     ELSE IF f.err # ErrNone THEN [err |-> f.err, vault |-> NoVault]
     ELSE IF cfgData.err # ErrNone THEN [err |-> cfgData.err, vault |-> NoVault]
     ELSE IF rc.err # ErrNone THEN [err |-> rc.err, vault |-> NoVault]
     ELSE [err |-> ErrNone, vault |-> [vault EXCEPT !.RepoConfig = rc.val]]

\* Open returns once the four reads are joined
OpenFinish ==
  /\ open.pc = "reading"
  /\ open.pending = {}
  /\ LET out == OpenOutcome(open.blocks, open.creds)
     IN /\ open' = [open EXCEPT !.pc = "done", !.err = out.err, !.vault = out.vault]
        /\ v' = IF out.err = ErrNone THEN out.vault ELSE v
        /\ vres' = VaultResult("Open", <<>>, out.err, NilBlock)
  /\ UNCHANGED <<vaultFormat, blocks, created, creates, puts, latest>>
  /\ UNCHANGED uploaderVars
  /\ UNCHANGED auxVars

(***************************************************************************)
(* Specifications: the uploader (Spec), the items of a created vault       *)
(* (SpecVault) and the create and open protocols (SpecOpen).               *)
(***************************************************************************)
Init == UploaderInit /\ VaultIdle /\ AuxIdle
Next == UploaderNext
Spec == Init /\ [][Next]_vars

UploaderIdle ==
  /\ tree = [f |-> NoFile, d |-> [present |-> FALSE, f |-> NoFile]]
  /\ objects = {}
  /\ cancelled = FALSE
  /\ stack = <<>>
  /\ result = NoResult
  /\ runPrev = NullObjectID
  /\ runs = 0
  /\ dirWrites = {}
  /\ fileOpens = {}

\* a vault just created on an empty store, dedicated or colocated
VaultInit ==
  /\ UploaderIdle
  /\ AuxIdle
  /\ latest = NoItems
  /\ open = OpenIdle
  /\ creates = 1
  /\ puts = 0
  /\ vres = VaultResult("Create", <<>>, ErrNone, NilBlock)
  /\ \E encryption \in Encryptions, repo \in RepoStorages,
        uniqueID \in UniqueIDs, r \in RandBytes :
       LET out == CreateOutcome(<<>>, ClientFormat(encryption), 1, repo, uniqueID,
                                [i \in 1..BlockSize |-> r])
       IN /\ out.err = ErrNone
          /\ vaultFormat = ClientFormat(encryption)
          /\ blocks = out.blocks
          /\ v = out.vault
          /\ created = [vault |-> out.vault, creds |-> 1, repo |-> repo]

VaultNext ==
  \/ Put
  \/ Get
  \/ ListItems
  \/ Remove

SpecVault == VaultInit /\ [][VaultNext]_vars

OpenInit ==
  /\ UploaderIdle
  /\ AuxIdle
  /\ latest = NoItems
  /\ blocks = <<>>
  /\ v = NoVault
  /\ created = NeverCreated
  /\ vres = VaultResult("none", <<>>, ErrNone, NilBlock)
  /\ open = OpenIdle
  /\ creates = 0
  /\ puts = 0
  /\ \E encryption \in Encryptions : vaultFormat = ClientFormat(encryption)

OpenNext ==
  \/ Create
  \/ OpenStart
  \/ OpenRead
  \/ OpenFinish

SpecOpen == OpenInit /\ [][OpenNext]_vars

(***************************************************************************)
(* The block codec on one block (SpecCodec): the block is written by       *)
(* writeEncryptedBlock, may change in one position while it is stored, and *)
(* is read back by decryptBlock.                                           *)
(***************************************************************************)
\* payloads given to the codec
CodecPayloads == {<<>>, <<1>>, <<2, 1>>}

\* the bit of a stored byte that flips
FlipBits == {1, 128}

\* a Vault as Create leaves it, for the codec's keys
CodecVault(encryption, creds, uniqueID) ==
  [valid |-> TRUE,
   Format |-> [ClientFormat(encryption) EXCEPT !.Version = "1", !.UniqueID = uniqueID],
   RepoConfig |-> ZeroRepoConfig,
   masterKey |-> getMasterKey(creds, uniqueID),
   itemPrefix |-> NoPrefix]

CodecInit ==
  /\ UploaderIdle
  /\ VaultIdle
  /\ ign = IgnIdle
  /\ ver = VerIdle
  /\ cancelAt = NoCancel
  /\ \E encryption \in Encryptions, creds \in Creds, uniqueID \in UniqueIDs :
       codec = [CodecIdle EXCEPT !.pc = "new",
                                 !.vault = CodecVault(encryption, creds, uniqueID)]

\* Vault.writeEncryptedBlock (lines 57-88) builds the block that is stored
CodecWrite ==
  /\ codec.pc = "new"
  /\ \E content \in CodecPayloads, r \in RandBytes :
       LET enc == EncryptBlock(codec.vault, content, [i \in 1..BlockSize |-> r])
       IN codec' = [codec EXCEPT !.pc = IF enc.err = ErrNone THEN "stored" ELSE "failed",
                                 !.content = content,
                                 !.block = enc.bytes,
                                 !.err = enc.err]
  /\ UNCHANGED <<uploaderVars, vaultVars, ign, ver, cancelAt>>

\* the stored block changes in one position (line 91 reads what the store holds)
CodecFlip ==
  /\ codec.pc = "stored"
  /\ codec.pos = 0
  /\ \E i \in 1..Len(codec.block), b \in FlipBits :
       codec' = [codec EXCEPT !.block[i] = Xor(codec.block[i], b), !.pos = i]
  /\ UNCHANGED <<uploaderVars, vaultVars, ign, ver, cancelAt>>

\* Vault.readEncryptedBlock (lines 90-100): decryptBlock of the block read
CodecRead ==
  /\ codec.pc = "stored"
  /\ LET out == decryptBlock(codec.vault, Bytes(codec.block))
     IN codec' = [codec EXCEPT !.pc = "read", !.err = out.err, !.out = out.block]
  /\ UNCHANGED <<uploaderVars, vaultVars, ign, ver, cancelAt>>

CodecNext ==
  \/ CodecWrite
  \/ CodecFlip
  \/ CodecRead

SpecCodec == CodecInit /\ [][CodecNext]_vars

(***************************************************************************)
(* Ignore engine (package ignorefs): data model.  Paths are sequences of   *)
(* names, the wrapped root being the empty path.                           *)
(***************************************************************************)
IgnFile(name, size, rules) ==
  [Name |-> name, IsDir |-> FALSE, Size |-> size, Rules |-> rules]

IgnDir(name) == [Name |-> name, IsDir |-> TRUE, Size |-> 0, Rules |-> <<>>]

\* the wrapped file system: the root holds the files .i, a, b and the
\* directory d; d holds .i, .j, a, b and the directory e; e holds a and b.
\* Rules are the lines of a file read as an ignore file.
IgnEntries(path) ==
  CASE path = <<>> ->
         <<IgnFile(".i", 0, <<"#", "a">>), IgnFile("a", 1, <<>>),
           IgnFile("b", 2, <<>>), IgnDir("d")>>
    [] path = <<"d">> ->
         <<IgnFile(".i", 0, <<"b">>), IgnFile(".j", 0, <<"", "a">>),
           IgnFile("a", 1, <<>>), IgnFile("b", 2, <<>>), IgnDir("e")>>
    [] OTHER -> <<IgnFile("a", 1, <<>>), IgnFile("b", 2, <<>>)>>

IgnPaths == {<<>>, <<"d">>, <<"d", "e">>}

\* no policy is defined for a directory
NoPolicy ==
  [nil |-> TRUE, NoParentDotIgnoreFiles |-> FALSE,
   NoParentIgnoreRules |-> FALSE, DotIgnoreFiles |-> <<>>,
   IgnoreRules |-> <<>>, MaxFileSize |-> 0]

\* the policies a caller may define for the root
RootPolicies ==
  {NoPolicy} \cup
  [nil : {FALSE}, NoParentDotIgnoreFiles : {FALSE},
   NoParentIgnoreRules : {FALSE}, DotIgnoreFiles : {<<>>, <<".i">>},
   IgnoreRules : {<<>>, <<"b">>}, MaxFileSize : {0, 1}]

\* the policies a caller may define for directory d
DirPolicies ==
  {NoPolicy} \cup
  [nil : {FALSE}, NoParentDotIgnoreFiles : BOOLEAN,
   NoParentIgnoreRules : BOOLEAN,
   DotIgnoreFiles : {<<>>, <<".j">>, <<".j", ".i", ".j">>},
   IgnoreRules : {<<>>, <<"b">>}, MaxFileSize : {0, 1}]

\* the policies a caller may define for directory e of d
SubdirPolicies ==
  {NoPolicy,
   [nil |-> FALSE, NoParentDotIgnoreFiles |-> FALSE,
    NoParentIgnoreRules |-> TRUE, DotIgnoreFiles |-> <<>>,
    IgnoreRules |-> <<"a">>, MaxFileSize |-> 0]}

\* the callbacks a caller may register, in registration order
Callbacks == {<<>>, <<1>>, <<1, 2>>}

\* a parsed rule: the directory it was declared in and its pattern; it
\* matches the entries below that directory whose name is the pattern
ParseGitIgnore(baseDir, pattern) == [base |-> baseDir, pattern |-> pattern]

Matches(m, path, isDir) ==
  /\ Len(path) > Len(m.base)
  /\ SubSeq(path, 1, Len(m.base)) = m.base
  /\ path[Len(path)] = m.pattern

\* the context New gives the wrapped root
RootContext(onIgnore) ==
  [hasParent |-> FALSE, parent |-> <<>>, onIgnore |-> onIgnore,
   dotIgnoreFiles |-> <<>>, matchers |-> <<>>, maxFileSize |-> 0]

\* the index of the entry called name, 0 when there is none
FindByName(entries, name) ==
  IF \E i \in 1..Len(entries) : entries[i].Name = name
  THEN CHOOSE i \in 1..Len(entries) : entries[i].Name = name
  ELSE 0

RECURSIVE Dedupe(_, _)
Dedupe(s, seen) ==
  IF s = <<>> THEN <<>>
  ELSE IF Head(s) \in seen THEN Dedupe(Tail(s), seen)
  ELSE <<Head(s)>> \o Dedupe(Tail(s), seen \cup {Head(s)})

combineAndDedupe(a, b) == Dedupe(a \o b, {})

overrideFromPolicy(c, policy, dirPath) ==
  LET c1 == IF policy.NoParentDotIgnoreFiles
            THEN [c EXCEPT !.dotIgnoreFiles = <<>>] ELSE c
      c2 == IF policy.NoParentIgnoreRules
            THEN [c1 EXCEPT !.matchers = <<>>] ELSE c1
      c3 == [c2 EXCEPT !.dotIgnoreFiles =
               combineAndDedupe(c2.dotIgnoreFiles, policy.DotIgnoreFiles)]
      c4 == IF policy.MaxFileSize # 0
            THEN [c3 EXCEPT !.maxFileSize = policy.MaxFileSize] ELSE c3
  IN [c4 EXCEPT !.matchers = c4.matchers \o
        [i \in 1..Len(policy.IgnoreRules) |->
           ParseGitIgnore(dirPath, policy.IgnoreRules[i])]]

\* the matchers of the lines of an ignore file: comment lines and blank
\* lines are skipped
parseIgnoreFile(baseDir, file) ==
  LET lines == SelectSeq(file.Rules, LAMBDA line : line \notin {"#", ""})
  IN [i \in 1..Len(lines) |-> ParseGitIgnore(baseDir, lines[i])]

RECURSIVE loadDotIgnoreFiles(_, _, _, _)
loadDotIgnoreFiles(c, dirPath, entries, dotIgnoreFiles) ==
  IF dotIgnoreFiles = <<>> THEN c
  ELSE LET k == FindByName(entries, Head(dotIgnoreFiles))
           c1 == IF k = 0 \/ entries[k].IsDir THEN c
                 ELSE [c EXCEPT !.matchers =
                         @ \o parseIgnoreFile(dirPath, entries[k])]
       IN loadDotIgnoreFiles(c1, dirPath, entries, Tail(dotIgnoreFiles))

\* a buildContext that, where the parent context could be shared, returns
\* the context above the parent
buildContextSkipParent(parentContext, relativePath, entries, policy) ==
  LET effectiveDotIgnoreFiles ==
        IF policy.nil THEN parentContext.dotIgnoreFiles
        ELSE policy.DotIgnoreFiles
      foundDotIgnoreFiles ==
        \E i \in 1..Len(effectiveDotIgnoreFiles) :
          FindByName(entries, effectiveDotIgnoreFiles[i]) # 0
      newic == [hasParent |-> TRUE, parent |-> parentContext,
                onIgnore |-> parentContext.onIgnore,
                dotIgnoreFiles |-> effectiveDotIgnoreFiles,
                matchers |-> <<>>,
                maxFileSize |-> parentContext.maxFileSize]
      c1 == IF policy.nil THEN newic
            ELSE overrideFromPolicy(newic, policy, relativePath)
  IN IF ~foundDotIgnoreFiles /\ policy.nil
     THEN (IF parentContext.hasParent THEN parentContext.parent
           ELSE parentContext)
     ELSE loadDotIgnoreFiles(c1, relativePath, entries,
                             effectiveDotIgnoreFiles)

buildContext(parentContext, relativePath, entries, policy) ==
  LET effectiveDotIgnoreFiles ==
        IF policy.nil THEN parentContext.dotIgnoreFiles
        ELSE policy.DotIgnoreFiles
      foundDotIgnoreFiles ==
        \E i \in 1..Len(effectiveDotIgnoreFiles) :
          FindByName(entries, effectiveDotIgnoreFiles[i]) # 0
      newic == [hasParent |-> TRUE, parent |-> parentContext,
                onIgnore |-> parentContext.onIgnore,
                dotIgnoreFiles |-> effectiveDotIgnoreFiles,
                matchers |-> <<>>,
                maxFileSize |-> parentContext.maxFileSize]
      c1 == IF policy.nil THEN newic
            ELSE overrideFromPolicy(newic, policy, relativePath)
  IN IF ~foundDotIgnoreFiles /\ policy.nil THEN parentContext
     ELSE loadDotIgnoreFiles(c1, relativePath, entries,
                             effectiveDotIgnoreFiles)

\* whether the entry at path is kept, and the callback calls made when it
\* is not: the first context of the chain with a matching matcher decides
RECURSIVE shouldIncludeByName(_, _, _)
\* a name check that consults the matchers of the nearest context only
shouldIncludeByNameNearest(c, path, isDir) ==
  IF \E i \in 1..Len(c.matchers) : Matches(c.matchers[i], path, isDir)
  THEN [include |-> FALSE,
        calls |-> [k \in 1..Len(c.onIgnore) |->
                     [cb |-> c.onIgnore[k], path |-> path]]]
  ELSE [include |-> TRUE, calls |-> <<>>]

shouldIncludeByName(c, path, isDir) ==
  IF \E i \in 1..Len(c.matchers) : Matches(c.matchers[i], path, isDir)
  THEN [include |-> FALSE,
        calls |-> [k \in 1..Len(c.onIgnore) |->
                     [cb |-> c.onIgnore[k], path |-> path]]]
  ELSE IF ~c.hasParent THEN [include |-> TRUE, calls |-> <<>>]
  ELSE shouldIncludeByName(c.parent, path, isDir)

(***************************************************************************)
(* Ignore engine: listing a wrapped directory.                             *)
(***************************************************************************)
GetPolicyForPath(path) ==
  IF path = <<>> THEN ign.policies.root
  ELSE IF path = <<"d">> THEN ign.policies.d
  ELSE ign.policies.e

NotListed == [done |-> FALSE]

\* the loop of Readdir over the entries: the name check, then the size
\* check; acc collects the kept entries, the dropped names and the
\* callback calls
RECURSIVE FilterEntries(_, _, _, _)
FilterEntries(thisContext, relativePath, entries, acc) ==
  IF entries = <<>> THEN acc
  ELSE LET e == Head(entries)
           r == shouldIncludeByName(thisContext,
                                    relativePath \o <<e.Name>>, e.IsDir)
           maxSize == thisContext.maxFileSize
           acc1 == IF ~r.include
                   THEN [acc EXCEPT !.byRule = @ \cup {e.Name},
                                    !.calls = @ \o r.calls]
                   ELSE IF maxSize > 0 /\ e.Size > maxSize
                   THEN [acc EXCEPT !.bySize = @ \cup {e.Name}]
                   ELSE [acc EXCEPT !.result = @ \o <<e>>]
       IN FilterEntries(thisContext, relativePath, Tail(entries), acc1)

IgnInit ==
  /\ UploaderIdle
  /\ VaultIdle
  /\ codec = CodecIdle
  /\ ver = VerIdle
  /\ cancelAt = NoCancel
  /\ \E root \in RootPolicies, d \in DirPolicies, e \in SubdirPolicies,
        onIgnore \in Callbacks :
       ign = [pc |-> "wrapped",
              policies |-> [root |-> root, d |-> d, e |-> e],
              onIgnore |-> onIgnore,
              dirs |-> {[relativePath |-> <<>>,
                         parentContext |-> RootContext(onIgnore)]},
              listed |-> [p \in IgnPaths |-> NotListed],
              log |-> <<>>]

\* Readdir of one wrapped directory; readOk is the outcome of the
\* underlying directory's Readdir
Readdir ==
  /\ ign.pc = "wrapped"
  /\ \E d \in ign.dirs, readOk \in BOOLEAN :
       /\ ~ign.listed[d.relativePath].done
       /\ LET entries == IgnEntries(d.relativePath)
              thisContext == buildContext(d.parentContext, d.relativePath,
                               entries, GetPolicyForPath(d.relativePath))
              out == FilterEntries(thisContext, d.relativePath, entries,
                       [result |-> <<>>, byRule |-> {}, bySize |-> {},
                        calls |-> <<>>])
              wrapped == {[relativePath |-> d.relativePath \o <<out.result[i].Name>>,
                           parentContext |-> thisContext] :
                            i \in {j \in 1..Len(out.result) : out.result[j].IsDir}}
          IN ign' = IF ~readOk
                    THEN [ign EXCEPT !.listed[d.relativePath] =
                            [done |-> TRUE, ok |-> FALSE]]
                    ELSE [ign EXCEPT
                            !.listed[d.relativePath] =
                               [done |-> TRUE, ok |-> TRUE,
                                parentContext |-> d.parentContext,
                                thisContext |-> thisContext,
                                result |-> out.result,
                                byRule |-> out.byRule,
                                bySize |-> out.bySize],
                            !.dirs = @ \cup wrapped,
                            !.log = @ \o out.calls]
  /\ UNCHANGED <<uploaderVars, vaultVars, codec, ver, cancelAt>>

IgnNext == Readdir

SpecIgnore == IgnInit /\ [][IgnNext]_vars

(***************************************************************************)
(* Verify command (package cli): data model.  Object identifiers are       *)
(* names, paths are sequences of names starting with the root's            *)
(* identifier.                                                             *)
(***************************************************************************)
VerRoot == "R"

VerObjects == {"R", "A", "B", "C", "D"}

VerDirs == {"R", "D"}

VerEntry(name, oid, isDir, fileSize) ==
  [Name |-> name, ObjectID |-> oid, IsDir |-> isDir, FileSize |-> fileSize]

\* the stored tree: directory R holds file a (object A), directory d
\* (object D) and file c (object C); D holds file b (object B) and file a2,
\* a second entry for object A
VerEntries(oid) ==
  IF oid = "R"
  THEN <<VerEntry("a", "A", FALSE, 1), VerEntry("d", "D", TRUE, 1),
         VerEntry("c", "C", FALSE, 1)>>
  ELSE <<VerEntry("b", "B", FALSE, 1), VerEntry("a2", "A", FALSE, 1)>>

\* how an object answers om.VerifyObject: with the length its entry
\* records, with another length, or with an error
ObjectStates == {"ok", "long", "broken"}

\* the values of the max-errors flag
Thresholds == {0, 1, 2, 3}

NilErr == [kind |-> "nil"]

VerFrame(oid, path) ==
  [oid |-> oid, path |-> path, entries |-> <<>>, i |-> 1, pc |-> "enter"]

\* the length om.VerifyObject returns for an object of verifier vr
VerLength(vr, oid) == IF vr.objects[oid] = "long" THEN 2 ELSE 1

\* a reportError that stops only above the threshold
reportErrorAbove(vr, path, err) ==
  LET errors == Append(vr.errors, [path |-> path, err |-> err])
  IN [vr |-> [vr EXCEPT !.errors = errors],
      stop |-> Len(errors) > vr.threshold]

reportError(vr, path, err) ==
  LET errors == Append(vr.errors, [path |-> path, err |-> err])
  IN [vr |-> [vr EXCEPT !.errors = errors],
      stop |-> Len(errors) >= vr.threshold]

\* verifyObject: the verifier after the call and the error returned;
\* failures collects the errors the objects and directories gave
verifyObject(vr, oid, path, expectedLength) ==
  IF oid \in vr.visited THEN [vr |-> vr, err |-> NilErr]
  ELSE LET v1 == [vr EXCEPT !.visited = @ \cup {oid},
                           !.calls = Append(@, oid)]
       IN IF vr.objects[oid] = "broken"
          THEN LET err == [kind |-> "invalid object", oid |-> oid]
               IN [vr |-> [v1 EXCEPT !.failures = @ \cup {err}], err |-> err]
          ELSE IF expectedLength = -1 THEN [vr |-> v1, err |-> NilErr]
          ELSE LET v2 == [v1 EXCEPT !.compared = @ \cup {oid}]
                   err == [kind |-> "invalid object length", oid |-> oid]
               IN IF VerLength(vr, oid) # expectedLength
                  THEN [vr |-> [v2 EXCEPT !.failures = @ \cup {err}],
                        err |-> err]
                  ELSE [vr |-> v2, err |-> NilErr]

\* verifyDirectory returns err to its caller: runVerifyCommand drops the
\* value, a calling verifyDirectory reports a non-nil one for the child's
\* path and returns it in turn when reportError says so
RECURSIVE verifyDirectoryReturn(_, _)
verifyDirectoryReturn(vr, err) ==
  LET rest == SubSeq(vr.stack, 1, Len(vr.stack) - 1)
  IN IF rest = <<>> THEN [vr EXCEPT !.stack = <<>>, !.pc = "root"]
     ELSE LET parent == rest[Len(rest)]
              childPath == parent.path \o <<parent.entries[parent.i].Name>>
              v1 == [vr EXCEPT !.stack = rest]
          IN IF err = NilErr THEN v1
             ELSE LET r == reportError(v1, childPath, err)
                  IN IF r.stop THEN verifyDirectoryReturn(r.vr, err)
                     ELSE r.vr

\* the loop of verifyDirectory moves to the next entry
NextEntry(vr) ==
  [vr EXCEPT !.stack[Len(vr.stack)].i = @ + 1,
            !.stack[Len(vr.stack)].pc = "dir"]

(***************************************************************************)
(* Verify command: actions.                                                *)
(***************************************************************************)
VerInit ==
  /\ UploaderIdle
  /\ VaultIdle
  /\ codec = CodecIdle
  /\ ign = IgnIdle
  /\ cancelAt = NoCancel
  /\ \E states \in [VerObjects -> ObjectStates],
        unreadable \in SUBSET VerDirs,
        recursive \in BOOLEAN, threshold \in Thresholds :
       /\ \A d \in VerDirs : states[d] # "long"
       /\ ver = [pc |-> "start", objects |-> states,
                 unreadable |-> unreadable, recursive |-> recursive,
                 threshold |-> threshold, stack |-> <<>>, visited |-> {},
                 errors |-> <<>>, calls |-> <<>>, reads |-> <<>>,
                 reached |-> {}, compared |-> {}, failures |-> {},
                 ret |-> NilErr]

\* runVerifyCommand up to the call of verifyDirectory
VerifyStart ==
  /\ ver.pc = "start"
  /\ ver' = IF ver.recursive
            THEN [ver EXCEPT !.pc = "walk", !.reached = {VerRoot},
                             !.stack = <<VerFrame(VerRoot, <<VerRoot>>)>>]
            ELSE [ver EXCEPT !.pc = "root", !.reached = {VerRoot}]
  /\ UNCHANGED <<uploaderVars, vaultVars, codec, ign, cancelAt>>

\* verifyDirectory from its entry to the loop: the visited check and Readdir
VerifyDirectoryEnter ==
  /\ ver.pc = "walk"
  /\ ver.stack[Len(ver.stack)].pc = "enter"
  /\ LET n == Len(ver.stack)
         f == ver.stack[n]
         v1 == [ver EXCEPT !.visited = @ \cup {f.oid},
                           !.reads = Append(@, f.oid)]
         err == [kind |-> "readdir", oid |-> f.oid]
         r == reportError([v1 EXCEPT !.failures = @ \cup {err}], f.path,
                          [kind |-> "error reading directory",
                           oid |-> f.oid])
     IN ver' = IF f.oid \in ver.visited
               THEN verifyDirectoryReturn(ver, NilErr)
               ELSE IF f.oid \in ver.unreadable
               THEN IF r.stop THEN verifyDirectoryReturn(r.vr, err)
                    ELSE [r.vr EXCEPT !.stack[n].pc = "dir"]
               ELSE [v1 EXCEPT !.stack[n].pc = "dir",
                               !.stack[n].entries = VerEntries(f.oid)]
  /\ UNCHANGED <<uploaderVars, vaultVars, codec, ign, cancelAt>>

\* one entry of the loop of verifyDirectory: the recursive call for a
\* directory, then (or at once, for a file) verifyObject
VerifyDirectoryEntry ==
  /\ ver.pc = "walk"
  /\ ver.stack[Len(ver.stack)].pc \in {"dir", "object"}
  /\ ver.stack[Len(ver.stack)].i <= Len(ver.stack[Len(ver.stack)].entries)
  /\ LET n == Len(ver.stack)
         f == ver.stack[n]
         e == f.entries[f.i]
         childPath == f.path \o <<e.Name>>
         v1 == [ver EXCEPT !.reached = @ \cup {e.ObjectID}]
         o == verifyObject(v1, e.ObjectID, childPath, e.FileSize)
         r == reportError(o.vr, childPath, o.err)
     IN ver' = IF f.pc = "dir" /\ e.IsDir /\ ver.recursive
               THEN [v1 EXCEPT !.stack =
                       Append([@ EXCEPT ![n].pc = "object"],
                              VerFrame(e.ObjectID, childPath))]
               ELSE IF o.err = NilErr THEN NextEntry(o.vr)
               ELSE IF r.stop THEN verifyDirectoryReturn(r.vr, o.err)
               ELSE NextEntry(r.vr)
  /\ UNCHANGED <<uploaderVars, vaultVars, codec, ign, cancelAt>>

\* verifyDirectory returns nil after its last entry
VerifyDirectoryDone ==
  /\ ver.pc = "walk"
  /\ ver.stack[Len(ver.stack)].pc = "dir"
  /\ ver.stack[Len(ver.stack)].i > Len(ver.stack[Len(ver.stack)].entries)
  /\ ver' = verifyDirectoryReturn(ver, NilErr)
  /\ UNCHANGED <<uploaderVars, vaultVars, codec, ign, cancelAt>>

\* runVerifyCommand calls verifyObject on the root and drops its result
VerifyRootObject ==
  /\ ver.pc = "root"
  /\ ver' = [verifyObject(ver, VerRoot, <<VerRoot>>, -1).vr
               EXCEPT !.pc = "report"]
  /\ UNCHANGED <<uploaderVars, vaultVars, codec, ign, cancelAt>>

\* runVerifyCommand turns the error list into its return value
VerifyReport ==
  /\ ver.pc = "report"
  /\ ver' = [ver EXCEPT
               !.pc = "done",
               !.ret = IF Len(ver.errors) = 0 THEN NilErr
                       ELSE IF Len(ver.errors) = 1 THEN ver.errors[1]
                       ELSE [kind |-> "encountered errors",
                             n |-> Len(ver.errors)]]
  /\ UNCHANGED <<uploaderVars, vaultVars, codec, ign, cancelAt>>

VerNext ==
  \/ VerifyStart
  \/ VerifyDirectoryEnter
  \/ VerifyDirectoryEntry
  \/ VerifyDirectoryDone
  \/ VerifyRootObject
  \/ VerifyReport

SpecVerify == VerInit /\ [][VerNext]_vars

(***************************************************************************)
(* Uploader: Cancel during a run.  The runs of SpecCancel are those of     *)
(* Spec over a tree that stays as it is, with the first Cancel placed      *)
(* while UploadDir runs and cancelAt keeping what the run had done by then.*)
(***************************************************************************)
\* uploader.Cancel called from another thread while UploadDir runs
CancelDuringRun ==
  /\ ~Idle
  /\ ~cancelled
  /\ cancelled' = TRUE
  /\ cancelAt' = [set |-> TRUE, run |-> runs, pc |-> Top.pc,
                  fileOpens |-> fileOpens, dirWrites |-> dirWrites]
  /\ UNCHANGED <<tree, objects, stack, result, runPrev, runs, dirWrites, fileOpens>>
  /\ UNCHANGED vaultVars
  /\ UNCHANGED <<codec, ign, ver>>

CancelNext ==
  \/ StartUploadDir
  \/ UploadDirEnter
  \/ UploadDirEntry
  \/ UploadDirFinish
  \/ CancelDuringRun

SpecCancel == Init /\ [][CancelNext]_vars

(***************************************************************************)
(* Ignore engine: the shared parent context against a fresh child.         *)
(***************************************************************************)
\* buildContext without the reuse of lines 120-123: a new context is made
\* for every directory
buildContextFresh(parentContext, relativePath, entries, policy) ==
  LET effectiveDotIgnoreFiles ==
        IF policy.nil THEN parentContext.dotIgnoreFiles
        ELSE policy.DotIgnoreFiles
      newic == [hasParent |-> TRUE, parent |-> parentContext,
                onIgnore |-> parentContext.onIgnore,
                dotIgnoreFiles |-> effectiveDotIgnoreFiles,
                matchers |-> <<>>,
                maxFileSize |-> parentContext.maxFileSize]
      c1 == IF policy.nil THEN newic
            ELSE overrideFromPolicy(newic, policy, relativePath)
  IN loadDotIgnoreFiles(c1, relativePath, entries, effectiveDotIgnoreFiles)

\* the names of the entries of a listing
EntryNames(entries) == [i \in 1..Len(entries) |-> entries[i].Name]

\* Readdir of the directory at path and, in turn, of every directory it
\* keeps: for each one the names kept, the names dropped and the callback
\* calls, with contexts built by buildContext or, when fresh, by
\* buildContextFresh
RECURSIVE IgnWalk(_, _, _)
RECURSIVE IgnWalkAll(_, _, _, _)
IgnWalk(fresh, parentContext, path) ==
  LET entries == IgnEntries(path)
      policy == GetPolicyForPath(path)
      thisContext ==
        IF fresh
        THEN buildContextFresh(parentContext, path, entries, policy)
        ELSE buildContext(parentContext, path, entries, policy)
      out == FilterEntries(thisContext, path, entries,
               [result |-> <<>>, byRule |-> {}, bySize |-> {},
                calls |-> <<>>])
  IN <<[path |-> path, kept |-> EntryNames(out.result),
        byRule |-> out.byRule, bySize |-> out.bySize,
        calls |-> out.calls]>>
     \o IgnWalkAll(fresh, thisContext, path, out.result)

IgnWalkAll(fresh, thisContext, path, kept) ==
  IF kept = <<>> THEN <<>>
  ELSE (IF Head(kept).IsDir
        THEN IgnWalk(fresh, thisContext, path \o <<Head(kept).Name>>)
        ELSE <<>>)
       \o IgnWalkAll(fresh, thisContext, path, Tail(kept))

\* no policy applies at p and none of the dotfile names in force is in
\* the listing of p
SharesParentContext(p) ==
  /\ GetPolicyForPath(p).nil
  /\ \A i \in 1..Len(ign.listed[p].parentContext.dotIgnoreFiles) :
       FindByName(IgnEntries(p),
                  ign.listed[p].parentContext.dotIgnoreFiles[i]) = 0

(***************************************************************************)
(* Uploader: properties.                                                   *)
(***************************************************************************)
\* the identifier of the snapshot of directory path of tree t taken from
\* scratch: every file hashed, every directory object written, bottom-up
RECURSIVE SnapshotID(_, _)
SnapshotID(t, path) ==
  LET listing == List(t, path)
  IN WriteDir([i \in 1..Len(listing) |->
       [listing[i] EXCEPT !.ObjectID =
          IF listing[i].Type = EntryTypeDirectory
          THEN SnapshotID(t, path \o <<listing[i].Name>>)
          ELSE FileObject(FileData(t, path \o <<listing[i].Name>>))]])

\* the directories of tree t
DirPaths(t) == {RootPath} \cup (IF t.d.present THEN {SubdirPath} ELSE {})

RunSucceeded == result.done /\ result.err = ErrNone

\* previous names nothing that opens and parses as a directory
Unreadable(previous) ==
  previous # NullObjectID /\ (previous \notin objects \/ ~ReadDir(previous).ok)

\* C1: a run with no previous identifier returns the snapshot identifier R1
\* of the tree, and a run over the same tree with previous = R1 returns R1
\* and opens no DIR: writer, neither for the root nor for a subdirectory.
UnchangedTreeReturnsPrevious ==
  RunSucceeded =>
    /\ runPrev = NullObjectID => result.id = SnapshotID(tree, RootPath)
    /\ runPrev = SnapshotID(tree, RootPath) =>
         result.id = runPrev /\ dirWrites = {}

UnchangedTreeWitness ==
  /\ RunSucceeded
  /\ runs = 2
  /\ runPrev = SnapshotID(tree, RootPath)
  /\ tree.f.present /\ tree.d.present /\ tree.d.f.present
  /\ result.id = runPrev
  /\ dirWrites = {}
  /\ fileOpens = {}

\* C2: a top-level UploadDir that ends with ErrUploadCancelled returns the
\* previous identifier it was given, wherever in the walk the flag was seen.
CancelledReturnsPrevious ==
  (result.done /\ result.err = ErrUploadCancelled) => result.id = runPrev

\* an earlier state t0 of the tree whose files of unchanged metadata have
\* unchanged bytes
SameBytesWhereSameMetadata(t0, t) ==
  /\ (t0.f.present /\ t.f.present /\ t0.f.mtime = t.f.mtime) => t0.f.data = t.f.data
  /\ (t0.d.present /\ t.d.present /\ t0.d.f.present /\ t.d.f.present
        /\ t0.d.f.mtime = t.d.f.mtime) => t0.d.f.data = t.d.f.data

\* previous is a snapshot of such an earlier state
FaithfulPrevious ==
  \E t0 \in Trees :
    runPrev = SnapshotID(t0, RootPath) /\ SameBytesWhereSameMetadata(t0, tree)

UnreadablePreviousAsNone ==
  (RunSucceeded /\ Unreadable(runPrev)) =>
    /\ result.id = SnapshotID(tree, RootPath)
    /\ dirWrites = DirPaths(tree)

\* C5: at a non-directory entry UploadFile is invoked exactly when the
\* previous listing has no entry of that name with equal metadata; otherwise
\* nothing is read or stored and the entry gets the cached identifier.
UploadFileIffMetadataDiffers ==
  [][(~Idle /\ Top.pc = "loop" /\ Top.i <= Len(Top.listing) /\ stack' # stack
        /\ Top.listing[Top.i].Type # EntryTypeDirectory) =>
      LET e == Top.listing[Top.i]
          fullPath == Top.path \o <<e.Name>>
          ci == FindEntryName(Top.cached, e.Name)
      IN IF metadataEquals(e, Top.cached, ci)
         THEN /\ fileOpens' = fileOpens
              /\ objects' = objects
              /\ stack'[Len(stack)].listing[Top.i].ObjectID = Top.cached[ci].ObjectID
         ELSE fullPath \in fileOpens' /\ fullPath \notin fileOpens]_vars

ReuseWitness ==
  /\ ~Idle
  /\ Top.pc = "loop"
  /\ Top.i = 2
  /\ Top.listing[1].Type = EntryTypeFile
  /\ Top.listing[1].ObjectID # NullObjectID
  /\ fileOpens = {}
  /\ metadataEquals(Top.listing[1], Top.cached, FindEntryName(Top.cached, "f"))

(***************************************************************************)
(* Vault: properties.                                                      *)
(***************************************************************************)
ReservedItemIDs == {formatBlockID, repositoryConfigBlockID}

\* C6: no Put, Get, List or Remove on a created vault changes or deletes
\* the blocks item_prefix+"format" and item_prefix+"repo", and Put, Get and
\* Remove of "format" or "repo" fail with ReservedName and change nothing.
ReservedBlocksUntouched ==
  [][/\ \A id \in ReservedItemIDs :
          /\ (v.itemPrefix \o id) \in DOMAIN blocks
          /\ (v.itemPrefix \o id) \in DOMAIN blocks'
          /\ blocks'[v.itemPrefix \o id] = blocks[v.itemPrefix \o id]
     /\ (vres'.op \in {"Put", "Get", "Remove"} /\ vres'.id \in ReservedItemIDs) =>
          (vres'.err = ErrReservedName /\ vres'.data = NilBlock /\ blocks' = blocks)]_vars

ReservedNameWitness ==
  /\ vres.op = "Put"
  /\ vres.id = repositoryConfigBlockID
  /\ vres.err = ErrReservedName
  /\ v.itemPrefix = NoPrefix
  /\ v.Format.Encryption = "none"
  /\ (colocatedVaultItemPrefix \o formatBlockID) \notin DOMAIN blocks

\* an Open call has returned, all four reads went through, and the
\* credentials are those of the last successful Create
OpenedAfterCreate ==
  /\ open.pc = "done"
  /\ open.ioErrors = {}
  /\ created.vault.valid
  /\ open.creds = created.creds

\* C7 as stated: Open after Create, same store and credentials, returns a
\* vault equal to the created one (item prefix, format, repository config).
CreateThenOpenRoundTrip ==
  OpenedAfterCreate => (open.err = ErrNone /\ open.vault = created.vault)

\* C7, amended: the same, unless the created vault is colocated and the
\* store also holds a block named "format".
CreateThenOpenRoundTripUnlessShadowed ==
  (OpenedAfterCreate
     /\ (created.vault.itemPrefix = colocatedVaultItemPrefix =>
           formatBlockID \notin DOMAIN blocks))
    => (open.err = ErrNone /\ open.vault = created.vault)

RoundTripWitness ==
  /\ OpenedAfterCreate
  /\ open.err = ErrNone
  /\ open.vault = created.vault
  /\ open.vault.itemPrefix = NoPrefix
  /\ open.vault.RepoConfig.Connection = RepoConnectionInfo
  /\ open.vault.Format.Encryption = "aes-256"
  /\ (colocatedVaultItemPrefix \o formatBlockID) \in DOMAIN blocks

\* C8: after Create the item prefix is "VLT" exactly when vault and
\* repository share one store (no repository store given, or the vault store
\* given again), which is exactly when the config has no connection info.
PrefixIffSharedStore ==
  created.vault.valid =>
    /\ (created.vault.itemPrefix = colocatedVaultItemPrefix) <=> (created.repo \in {"nil", "same"})
    /\ (created.repo \in {"nil", "same"}) <=>
         (created.vault.RepoConfig.Connection = NoConnection)

\* the blocks Open collects when every read goes through
StoredBlocks == [i \in 0..3 |-> GetBlock(blocks, OpenBlockName(i))]

\* C9: Open fails with VaultFormatMissing exactly when neither "format" nor
\* "VLTformat" is in the store; otherwise it opens the variant whose format
\* block is stored, the unprefixed one when both are, with that variant's
\* repo block, in whatever order the four reads complete.
OpenSelectsStoredVariant ==
  open.pc = "done" =>
    /\ (open.err = ErrFormatNotFound) <=>
         (formatBlockID \notin DOMAIN blocks
            /\ (colocatedVaultItemPrefix \o formatBlockID) \notin DOMAIN blocks)
    /\ open.err = OpenOutcome(StoredBlocks, open.creds).err
    /\ open.vault = OpenOutcome(StoredBlocks, open.creds).vault

\* the repo block of the variant the store selects
SelectedRepoBlock ==
  GetBlock(blocks, IF formatBlockID \in DOMAIN blocks
                   THEN repositoryConfigBlockID
                   ELSE colocatedVaultItemPrefix \o repositoryConfigBlockID)

\* C10: Open returns an error, never another variant and never a crash,
\* when one of its reads failed with a storage error or the repo block of
\* the selected variant is absent or shorter than the checksum.
OpenSurfacesFailures ==
  (open.pc = "done"
     /\ (open.ioErrors # {} \/ SelectedRepoBlock.nil
           \/ Len(SelectedRepoBlock.bytes) < HashSize))
    => open.err \notin {ErrNone, Panic}

\* C11: on a vault with encryption other than "none", a block that differs
\* in one position (IV, ciphertext or tag) from the block written is refused
\* with the checksum error and no plaintext is returned.
AlteredBlockRefused ==
  (codec.pc = "read" /\ codec.pos # 0 /\ codec.vault.Format.Encryption # "none") =>
    (codec.err = ErrChecksum /\ codec.out = NilBlock)

AlteredBlockWitness ==
  /\ codec.pc = "read"
  /\ codec.vault.Format.Encryption = "aes-192"
  /\ codec.content = <<2, 1>>
  /\ codec.pos = BlockSize + 2
  /\ codec.err = ErrChecksum

\* what Get of an item returns according to the puts and removes made
Expected(id) ==
  IF latest[id].nil
  THEN [err |-> ErrItemNotFound, block |-> NilBlock]
  ELSE [err |-> ErrNone, block |-> latest[id]]

\* C12: after any puts and removes, reading an item that is not reserved
\* gives the payload of the last put of that id not followed by a remove,
\* under every algorithm, and ItemNotFound when there is none; so does the
\* last Get that met no storage error.
GetReturnsLatestPut ==
  /\ \A id \in ItemIDs \ ReservedItemIDs : readEncryptedBlock(v, id, TRUE) = Expected(id)
  /\ (vres.op = "Get" /\ vres.id \notin ReservedItemIDs /\ vres.err # ErrStorage) =>
       (vres.err = Expected(vres.id).err /\ vres.data = Expected(vres.id).block)

GetReturnsLatestPutWitness ==
  /\ vres.op = "Get"
  /\ vres.id = <<"a">>
  /\ vres.err = ErrNone
  /\ vres.data = Bytes(<<2>>)
  /\ puts = 2
  /\ v.Format.Encryption = "aes-128"
  /\ v.itemPrefix = colocatedVaultItemPrefix
  /\ latest[colocatedVaultItemPrefix \o formatBlockID] = Bytes(<<1>>)

\* the unique id under which the store's vault is opened: that of the format
\* block Open selects, 0 when the store holds no format block
StoredUniqueID ==
  IF StoredBlocks[0].nil /\ StoredBlocks[2].nil
  THEN 0
  ELSE UnmarshalFormat(StoredBlocks[OpenOffset(StoredBlocks)]).val.UniqueID

\* C13: once a store holds a vault, no Create and no Open changes the
\* unique id under which that store's vault is opened.
UniqueIDNeverRegenerated ==
  [][StoredUniqueID # 0 => StoredUniqueID' = StoredUniqueID]_vars

(***************************************************************************)
(* Ignore engine: properties.                                              *)
(***************************************************************************)
IsPrefix(p, q) == Len(p) <= Len(q) /\ SubSeq(q, 1, Len(p)) = p

\* the matchers of a context and of all its ancestors
RECURSIVE ChainMatchers(_)
ChainMatchers(c) ==
  {c.matchers[i] : i \in 1..Len(c.matchers)} \cup
  (IF c.hasParent THEN ChainMatchers(c.parent) ELSE {})

IgnListedOk(p) ==
  ign.pc = "wrapped" /\ ign.listed[p].done /\ ign.listed[p].ok

\* the number of calls of callback cb with path in the log
CallsOf(cb, path) ==
  Cardinality({k \in 1..Len(ign.log) :
                 ign.log[k] = [cb |-> cb, path |-> path]})

\* C14: below a directory whose policy sets no_parent_ignore_rules, an
\* entry is dropped by rule only if a matcher declared at or below that
\* directory matches it; matchers inherited from above are not applied.
NoParentIgnoreRulesStripsInherited ==
  \A p \in IgnPaths, q \in IgnPaths :
    (/\ IgnListedOk(p)
     /\ IsPrefix(q, p)
     /\ ~GetPolicyForPath(q).nil
     /\ GetPolicyForPath(q).NoParentIgnoreRules)
    => \A name \in ign.listed[p].byRule :
         \E m \in ChainMatchers(ign.listed[p].thisContext) :
           /\ Matches(m, p \o <<name>>, FALSE)
           /\ IsPrefix(q, m.base)

\* the matchers that the ignore files of directory p named in names give
IgnoreFileMatchers(p, names) ==
  UNION {LET k == FindByName(IgnEntries(p), names[i])
         IN IF k = 0 \/ IgnEntries(p)[k].IsDir THEN {}
            ELSE LET ms == parseIgnoreFile(p, IgnEntries(p)[k])
                 IN {ms[j] : j \in 1..Len(ms)} :
         i \in 1..Len(names)}

\* C15: the dotfile name list of a directory with a policy is the deduped
\* merge of its parent's names and the policy's dot_ignore_files, or the
\* policy's names alone when no_parent_dot_ignore_files is set, and the
\* files so named are the ones that contribute rules at that directory.
DotIgnoreFilesMergedWithParent ==
  \A p \in IgnPaths :
    (IgnListedOk(p) /\ ~GetPolicyForPath(p).nil)
    => LET policy == GetPolicyForPath(p)
           l == ign.listed[p]
           names == IF policy.NoParentDotIgnoreFiles
                    THEN combineAndDedupe(<<>>, policy.DotIgnoreFiles)
                    ELSE combineAndDedupe(l.parentContext.dotIgnoreFiles,
                                          policy.DotIgnoreFiles)
       IN /\ l.thisContext.dotIgnoreFiles = names
          /\ {l.thisContext.matchers[i] :
                i \in 1..Len(l.thisContext.matchers)}
             = {ParseGitIgnore(p, policy.IgnoreRules[i]) :
                  i \in 1..Len(policy.IgnoreRules)}
               \cup IgnoreFileMatchers(p, names)

VerCalls == {ver.calls[i] : i \in 1..Len(ver.calls)}

VerReads == {ver.reads[i] : i \in 1..Len(ver.reads)}

\* the error count has reached the threshold (0 meaning the first error)
VerStopped == Len(ver.errors) > 0 /\ Len(ver.errors) >= ver.threshold

\* the failure an error is about
VerCause(err) ==
  IF err.kind = "error reading directory"
  THEN [kind |-> "readdir", oid |-> err.oid]
  ELSE err

\* C17: in a walk that ran to its end, om.VerifyObject was called for
\* every object reached (the root, every file and, in recursive mode,
\* every directory), the length of every object whose entry records one
\* was compared, and every mismatch is in the error list.
EveryReachedObjectVerified ==
  (ver.pc = "done" /\ ~VerStopped)
  => /\ \A o \in ver.reached : o \in VerCalls
     /\ \A o \in ver.reached \ {VerRoot} :
          ver.objects[o] # "broken" => o \in ver.compared
     /\ \A o \in ver.compared :
          ver.objects[o] = "long"
          => \E i \in 1..Len(ver.errors) :
               ver.errors[i].err =
                 [kind |-> "invalid object length", oid |-> o]

\* C18: the command returns nil exactly when no object examined failed:
\* a failed om.VerifyObject of the root or of a reached object, or a
\* length mismatch, gives a non-nil return, recursive or not.
VerifySucceedsIffNothingFailed ==
  ver.pc = "done" => (ver.ret = NilErr <=> ver.failures = {})

\* C19: one error is recorded per failing object or directory read, at
\* any depth: no two errors of the list are about the same failure, and
\* after exactly one failure the list has length one and the command
\* returns that error.
OneErrorPerFailure ==
  ver.pc = "done"
  => /\ \A i, j \in 1..Len(ver.errors) :
          i # j => VerCause(ver.errors[i].err) # VerCause(ver.errors[j].err)
     /\ Cardinality(ver.failures) = 1
        => (Len(ver.errors) = 1 /\ ver.ret = ver.errors[1])

\* C20: once the error count has reached the threshold no further object
\* is verified and no further directory is read, and a walk whose count
\* stayed below the threshold went through every entry of every directory
\* it could read.
StopsAtThreshold ==
  /\ [][VerStopped => (ver'.calls = ver.calls /\ ver'.reads = ver.reads)]_vars
  /\ []((ver.pc = "done" /\ ver.recursive /\ ~VerStopped)
        => /\ VerRoot \in VerReads
           /\ \A d \in VerReads \ ver.unreadable :
                \A i \in 1..Len(VerEntries(d)) :
                  /\ VerEntries(d)[i].ObjectID \in ver.visited
                  /\ VerEntries(d)[i].IsDir
                     => VerEntries(d)[i].ObjectID \in VerReads)

\* with threshold 2 the walk stopped at the second failing file, b in d,
\* and the broken file c that follows d in the root was never verified
StopsAtThresholdWitness ==
  /\ ver.pc = "done"
  /\ ver.recursive
  /\ ver.threshold = 2
  /\ ver.objects["A"] = "broken"
  /\ ver.objects["B"] = "long"
  /\ ver.objects["C"] = "broken"
  /\ Len(ver.errors) >= 2
  /\ VerCalls = {"A", "B"}

(***************************************************************************)
(* Uploader: properties of Cancel.                                         *)
(***************************************************************************)
\* the file uploads started and the directory objects written by the run
\* since Cancel was called during it
UploadsSinceCancel == fileOpens \ cancelAt.fileOpens

DirWritesSinceCancel == dirWrites \ cancelAt.dirWrites

\* C21: after Cancel is called while UploadDir runs, the run performs at
\* most the one operation that was in flight: it does not start two file
\* uploads, nor start a file upload and write a directory object, nor
\* write two directory objects.
CancelBoundsWork ==
  (cancelAt.set /\ runs = cancelAt.run)
  => Cardinality(UploadsSinceCancel) + Cardinality(DirWritesSinceCancel) <= 1

\* C22: the cancel flag is sticky and Cancel is idempotent: once Cancel
\* has been called, once or several times, every UploadDir call that
\* begins afterwards, top-level or recursive, returns ErrUploadCancelled
\* at once (the top-level call with its previous identifier): no file is
\* uploaded, no directory object is written, and neither the listing nor
\* the previous object has any part in the result.
CancelIsSticky ==
  /\ [][cancelled => cancelled']_vars
  /\ [][(cancelled /\ ~Idle /\ Top.pc = "start")
        => /\ stack' = <<>>
           /\ result' = [done |-> TRUE,
                         id |-> IF Len(stack) = 1 THEN Top.previous
                                ELSE NullObjectID,
                         err |-> ErrUploadCancelled]
           /\ objects' = objects
           /\ fileOpens' = fileOpens
           /\ dirWrites' = dirWrites]_vars

\* a second run, begun after Cancel with the identifier of an earlier run,
\* returned that identifier with ErrUploadCancelled and did nothing else
CancelIsStickyWitness ==
  /\ cancelled
  /\ runs = 2
  /\ result.done
  /\ result.err = ErrUploadCancelled
  /\ runPrev \in objects
  /\ result.id = runPrev
  /\ fileOpens = {}
  /\ dirWrites = {}

\* C23: at a directory where no policy applies and no dotfile name in
\* force is listed, Readdir uses the parent context itself, and its
\* listing, its dropped names and its callback calls, for the directory
\* and for every directory below it, are those of a Readdir that builds a
\* fresh child context.
SharedContextEqualsFreshContext ==
  \A p \in IgnPaths :
    (IgnListedOk(p) /\ SharesParentContext(p))
    => LET l == ign.listed[p]
           shared == IgnWalk(FALSE, l.parentContext, p)
       IN /\ l.thisContext = l.parentContext
          /\ EntryNames(l.result) = shared[1].kept
          /\ l.byRule = shared[1].byRule
          /\ l.bySize = shared[1].bySize
          /\ shared = IgnWalk(TRUE, l.parentContext, p)

\* d was listed with the root's context, which holds a rule that drops b
\* and a size limit, two callbacks are registered, and e below d was
\* listed with that same context
SharedContextEqualsFreshContextWitness ==
  /\ IgnListedOk(<<"d">>)
  /\ IgnListedOk(<<"d", "e">>)
  /\ SharesParentContext(<<"d">>)
  /\ SharesParentContext(<<"d", "e">>)
  /\ ign.listed[<<"d", "e">>].thisContext = ign.listed[<<"d">>].parentContext
  /\ Len(ign.listed[<<"d">>].parentContext.matchers) > 0
  /\ ign.listed[<<"d">>].parentContext.maxFileSize = 1
  /\ "b" \in ign.listed[<<"d">>].byRule
  /\ "b" \in ign.listed[<<"d", "e">>].byRule
  /\ ign.onIgnore = <<1, 2>>
  /\ CallsOf(2, <<"d", "e", "b">>) = 1

====
